---- MODULE Spec2Model ----
(***************************************************************************)
(* Burrows-Wheeler transform of palenic/BWtransform (module paleni_bwt):   *)
(* bwTransform(x) through the suffix array of x + '$', bwInverse(y)        *)
(* through the tables P and C and the vector T, as demo_bwt.ipynb          *)
(* documents and exercises them.                                           *)
(*                                                                         *)
(* A string is a sequence of code points.  Python indexes from 0 and TLA+  *)
(* from 1: every index the code holds (the suffix array, T, i,             *)
(* decoded_indexes) keeps its Python value and is read through At.         *)
(***************************************************************************)
EXTENDS Integers, Sequences, FiniteSets

VARIABLES
    x,                \* the argument of the call: [isStr, s]
    fun,              \* the function called: "bwTransform", "bwInverse", "none"
    pc,               \* "call", "walk" (inside bwInverse), "returned", "raised"
    ret,              \* the string returned (<<>> until a call returns)
    exc,              \* the exception raised, or NoExc
    T,                \* bwInverse: the vector T
    i,                \* bwInverse: the index the walk is at
    j,                \* bwInverse: how many indexes are still to be decoded
    decoded_indexes,  \* bwInverse: the array of decoded indexes
    calls             \* the calls the caller's expression has completed

vars == <<x, fun, pc, ret, exc, T, i, j, decoded_indexes, calls>>

-----------------------------------------------------------------------------
(* Bounds of the model *)

MaxLen == 5
MaxCalls == 3

-----------------------------------------------------------------------------
(* Characters and inputs *)

\* '$'
Terminator == 36

\* '#' (below '$' in code point order), 'a', 'c'
Alphabet == {35, 97, 99}

Chars == Alphabet \cup {Terminator}

\* "googol", "acctg", "lo$oogg", "g$actc", "lo$oogg$"
Examples ==
    { <<103, 111, 111, 103, 111, 108>>,
      <<97, 99, 99, 116, 103>>,
      <<108, 111, 36, 111, 111, 103, 103>>,
      <<103, 36, 97, 99, 116, 99>>,
      <<108, 111, 36, 111, 111, 103, 103, 36>> }

Strings == UNION {[1..n -> Chars] : n \in 0..MaxLen}

\* every string of the bounded alphabet, the notebook's words, and the
\* notebook's non-string argument (5)
Inputs ==
    {[isStr |-> TRUE, s |-> q] : q \in Strings \cup Examples}
        \cup {[isStr |-> FALSE, s |-> <<>>]}

-----------------------------------------------------------------------------
(* Python primitives *)

\* seq[k] with Python's index
At(seq, k) == seq[k + 1]

\* str.count(ch)
Count(s, ch) == Cardinality({k \in 1..Len(s) : s[k] = ch})

\* s[k:]
Suffix(s, k) == SubSeq(s, k + 1, Len(s))

\* the order reversed: the suffixes sorted downwards
RECURSIVE StrGreater(_, _)
StrGreater(u, v) ==
    IF u = <<>> THEN FALSE
    ELSE IF v = <<>> THEN TRUE
    ELSE IF Head(u) # Head(v) THEN Head(u) > Head(v)
    ELSE StrGreater(Tail(u), Tail(v))

\* u < v on strings: code point by code point, a proper prefix first
RECURSIVE StrLess(_, _)
StrLess(u, v) ==
    IF v = <<>> THEN FALSE
    ELSE IF u = <<>> THEN TRUE
    ELSE IF Head(u) # Head(v) THEN Head(u) < Head(v)
    ELSE StrLess(Tail(u), Tail(v))

\* numpy.argsort of a list of distinct strings
Argsort(list) ==
    [k \in 1..Len(list) |->
        CHOOSE a \in 0..(Len(list) - 1) :
            Cardinality({b \in 0..(Len(list) - 1) :
                            StrLess(At(list, b), At(list, a))}) = k - 1]

RECURSIVE SumOver(_, _, _)
SumOver(set, s, dummy) ==
    IF set = {} THEN 0
    ELSE LET c == CHOOSE e \in set : TRUE
         IN Count(s, c) + SumOver(set \ {c}, s, dummy)

-----------------------------------------------------------------------------
(* Exceptions *)

NoExc == [cls |-> "none", msg |-> ""]

TypeErr == [cls |-> "TypeError", msg |-> "The input is not a string"]

TerminatorPresent ==
    [cls |-> "TerminatorError",
     msg |-> "The input cannot contain the terminator character ('$'). Please provide another string."]

TerminatorMissing ==
    [cls |-> "TerminatorError",
     msg |-> "The input does not contain the terminator character ('$'). Please provide a coded string."]

TerminatorDuplicate ==
    [cls |-> "TerminatorError",
     msg |-> "The terminator ('$') cannot be present more than once in the coded string. Please provide another string."]

-----------------------------------------------------------------------------
(* bwTransform *)

\* the terminator looked for at the end of the string only
CheckTransformInputLast(a) ==
    IF ~a.isStr THEN TypeErr
    ELSE IF a.s # <<>> /\ a.s[Len(a.s)] = Terminator THEN TerminatorPresent
    ELSE NoExc

\* the validity check of bwTransform: the exception it raises, or NoExc
CheckTransformInput(a) ==
    IF ~a.isStr THEN TypeErr
    ELSE IF Count(a.s, Terminator) > 0 THEN TerminatorPresent
    ELSE NoExc

\* X: the string with the terminator added
Extended(s) == Append(s, Terminator)

\* the suffixes of X, by list comprehension
Suffixes(X) == [k \in 1..Len(X) |-> Suffix(X, k - 1)]

\* the suffixes left unsorted
SuffixArrayUnsorted(X) == [k \in 1..Len(X) |-> k - 1]

\* S: the start positions of the suffixes of X, sorted lexicographically
SuffixArray(X) == Argsort(Suffixes(X))

\* the first character of each suffix taken instead of the one before it
BwtFirstCharacter(X, S) ==
    [k \in 1..Len(X) |->
        IF S[k] = 0 THEN Terminator ELSE At(X, S[k])]

\* B[i] = $ if S[i] = 0, X[S[i] - 1] otherwise
BwtOfSuffixArray(X, S) ==
    [k \in 1..Len(X) |->
        IF S[k] = 0 THEN Terminator ELSE At(X, S[k] - 1)]

Transformed(s) == BwtOfSuffixArray(Extended(s), SuffixArray(Extended(s)))

-----------------------------------------------------------------------------
(* bwInverse *)

\* two terminators let through
CheckInverseInputTwo(a) ==
    IF ~a.isStr THEN TypeErr
    ELSE IF Count(a.s, Terminator) = 0 THEN TerminatorMissing
    ELSE IF Count(a.s, Terminator) > 2 THEN TerminatorDuplicate
    ELSE NoExc

\* the validity check of bwInverse: the exception it raises, or NoExc
CheckInverseInput(a) ==
    IF ~a.isStr THEN TypeErr
    ELSE IF Count(a.s, Terminator) = 0 THEN TerminatorMissing
    ELSE IF Count(a.s, Terminator) > 1 THEN TerminatorDuplicate
    ELSE NoExc

\* numpy.unique(list(y)): the characters of y
AlphabetOf(y) == {y[k] : k \in 1..Len(y)}

\* the characters following ch counted instead of those preceding it
CTableFollowing(y, ch) == SumOver({c \in AlphabetOf(y) : c > ch}, y, 0)

\* C[ch]: the total number of instances in L of characters preceding ch
CTable(y, ch) == SumOver({c \in AlphabetOf(y) : c < ch}, y, 0)

\* the prefix taken one character short, L[0:i-1]
PTableShort(y, k) == Count(SubSeq(y, 1, k - 1), At(y, k))

\* P[i]: the number of instances of character L[i] in the prefix L[0:i]
PTable(y, k) == Count(SubSeq(y, 1, k), At(y, k))

\* C left out of T
LFMapWithoutC(y) == [k \in 1..Len(y) |-> PTable(y, k - 1)]

\* T[i] = P[i] + C[L[i]]
LFMap(y) == [k \in 1..Len(y) |-> PTable(y, k - 1) + CTable(y, y[k])]

\* the walk started at the first row
TerminatorIndexFirst(y) == 0

\* y.index('$')
TerminatorIndex(y) == (CHOOSE k \in 1..Len(y) : y[k] = Terminator) - 1

\* the number of indexes decoded: the terminator is omitted from the output
WalkLength(y) == Len(y) - 1

\* the decoded indexes stored front to back
StoreFrontToBack(k) == Len(decoded_indexes) + 1 - k

\* where the k-th decoded index goes when k indexes are still to be decoded:
\* the string is reconstructed back to front
StorePosition(k) == k

\* S = [y[i] for i in decoded_indexes]
Decoded(y, idx) == [k \in 1..Len(idx) |-> At(y, idx[k])]

-----------------------------------------------------------------------------
(* The state machine *)

Init ==
    /\ x \in Inputs
    /\ fun = "none"
    /\ pc = "call"
    /\ ret = <<>>
    /\ exc = NoExc
    /\ T = <<>>
    /\ i = 0
    /\ j = 0
    /\ decoded_indexes = <<>>
    /\ calls = <<>>

\* bwTransform(x)
bwTransform ==
    /\ pc = "call"
    /\ fun' = "bwTransform"
    /\ exc' = CheckTransformInput(x)
    /\ IF exc' # NoExc
       THEN /\ pc' = "raised"
            /\ ret' = <<>>
       ELSE /\ pc' = "returned"
            /\ ret' = Transformed(x.s)
    /\ UNCHANGED <<x, T, i, j, decoded_indexes, calls>>

\* bwInverse(y): the validity check and the tables
bwInverseBegin ==
    /\ pc = "call"
    /\ fun' = "bwInverse"
    /\ exc' = CheckInverseInput(x)
    /\ IF exc' # NoExc
       THEN /\ pc' = "raised"
            /\ UNCHANGED <<T, i, j, decoded_indexes>>
       ELSE /\ pc' = "walk"
            /\ T' = LFMap(x.s)
            /\ i' = TerminatorIndex(x.s)
            /\ j' = WalkLength(x.s)
            /\ decoded_indexes' = [k \in 1..WalkLength(x.s) |-> 0]
    /\ ret' = <<>>
    /\ UNCHANGED <<x, calls>>

\* bwInverse(y): one turn of the walk, i = T[i]
bwInverseStep ==
    /\ pc = "walk"
    /\ j > 0
    /\ i' = At(T, i)
    /\ decoded_indexes' = [decoded_indexes EXCEPT ![StorePosition(j)] = i']
    /\ j' = j - 1
    /\ UNCHANGED <<x, fun, pc, ret, exc, T, calls>>

\* bwInverse(y): the decoded string is returned
bwInverseReturn ==
    /\ pc = "walk"
    /\ j = 0
    /\ ret' = Decoded(x.s, decoded_indexes)
    /\ pc' = "returned"
    /\ UNCHANGED <<x, fun, exc, T, i, j, decoded_indexes, calls>>

\* the caller passes the returned string to the next call, as in
\* bwInverse(bwTransform(nt))
Compose ==
    /\ pc = "returned"
    /\ Len(calls) + 1 < MaxCalls
    /\ calls' = Append(calls, [fun |-> fun, arg |-> x.s, ret |-> ret])
    /\ x' = [isStr |-> TRUE, s |-> ret]
    /\ pc' = "call"
    /\ fun' = "none"
    /\ ret' = <<>>
    /\ T' = <<>>
    /\ i' = 0
    /\ j' = 0
    /\ decoded_indexes' = <<>>
    /\ UNCHANGED exc

Next ==
    \/ bwTransform
    \/ bwInverseBegin
    \/ bwInverseStep
    \/ bwInverseReturn
    \/ Compose

Spec == Init /\ [][Next]_vars

-----------------------------------------------------------------------------
(* What the properties are stated against *)

Reverse(seq) == [k \in 1..Len(seq) |-> seq[Len(seq) + 1 - k]]

\* every symbol of s is above the terminator: s is a Sequence over the
\* alphabet the terminator is minimal for
OverAlphabet(s) == \A k \in 1..Len(s) : s[k] > Terminator

\* every symbol of y is the terminator or above it: y is a Transformed
\* Sequence over that alphabet
TransformedOverAlphabet(y) == \A k \in 1..Len(y) : y[k] >= Terminator

\* the order of symbols with the terminator smaller than every other symbol
SymbolLess(c, d) == c # d /\ (c = Terminator \/ (d # Terminator /\ c < d))

\* the rotation of X that starts at offset k
Rotation(X, k) == [m \in 1..Len(X) |-> At(X, (k + m - 1) % Len(X))]

RECURSIVE RotationLess(_, _)
RotationLess(u, v) ==
    IF u = <<>> \/ v = <<>> THEN FALSE
    ELSE IF Head(u) # Head(v) THEN SymbolLess(Head(u), Head(v))
    ELSE RotationLess(Tail(u), Tail(v))

\* Rotation Order: the offsets 0..N sorted by their rotations
RotationOrder(X) ==
    [k \in 1..Len(X) |->
        CHOOSE a \in 0..(Len(X) - 1) :
            Cardinality({b \in 0..(Len(X) - 1) :
                RotationLess(Rotation(X, b), Rotation(X, a))}) = k - 1]

\* the last column of the sorted rotations: the symbol before each offset
LastColumn(X) ==
    [k \in 1..Len(X) |->
        At(X, (RotationOrder(X)[k] - 1 + Len(X)) % Len(X))]

\* F: the symbols of y sorted with the terminator minimal
FirstColumn(y) ==
    [k \in 1..Len(y) |->
        CHOOSE c \in AlphabetOf(y) :
            /\ Cardinality({m \in 1..Len(y) : SymbolLess(y[m], c)}) < k
            /\ k <= Cardinality({m \in 1..Len(y) : ~SymbolLess(c, y[m])})]

\* the indexes Tv leads through from start: Tv[start], Tv[Tv[start]], ...
RECURSIVE Walk(_, _, _)
Walk(Tv, start, n) ==
    IF n = 0 THEN <<>>
    ELSE <<At(Tv, start)>> \o Walk(Tv, At(Tv, start), n - 1)

IsPermutation(Tv) == {Tv[k] : k \in 1..Len(Tv)} = 0..(Len(Tv) - 1)

\* following Tv from start visits every position once and comes back
SingleCycle(Tv, start) ==
    LET w == Walk(Tv, start, Len(Tv))
    IN /\ {w[k] : k \in 1..Len(w)} = 0..(Len(Tv) - 1)
       /\ w[Len(w)] = start

Googol == <<103, 111, 111, 103, 111, 108>>
GoogolBwt == <<108, 111, 36, 111, 111, 103, 103>>
Acctg == <<97, 99, 99, 116, 103>>
AcctgBwt == <<103, 36, 97, 99, 116, 99>>

\* the call before this one, whose result is this call's argument
Previous == calls[Len(calls)]

InverseOfTransform ==
    /\ Len(calls) >= 1
    /\ Previous.fun = "bwTransform"
    /\ fun = "bwInverse"

Finished == pc \in {"returned", "raised"}

-----------------------------------------------------------------------------
(* C1 *)

\* C1: round trip. Whenever bwInverse returns on the string bwTransform
\* returned for a terminator-free s (the empty s included), it returns s.
C1_RoundTrip ==
    (InverseOfTransform /\ Finished)
        => (pc = "returned" /\ ret = Previous.arg)

C1_Witness ==
    /\ InverseOfTransform
    /\ pc = "returned"
    /\ Previous.arg = Googol
    /\ x.s = GoogolBwt
    /\ ret = Googol

-----------------------------------------------------------------------------
(* C2 *)

\* C2: forward correctness. For a terminator-free s over the alphabet,
\* bwTransform returns the last column of the rotations of s + '$' sorted
\* with '$' minimal, the suffix array orders the offsets as the rotations
\* do, and "googol" and "acctg" give "lo$oogg" and "g$actc".
C2_ForwardCorrect ==
    (fun = "bwTransform" /\ pc = "returned" /\ OverAlphabet(x.s))
        => /\ ret = LastColumn(Extended(x.s))
           /\ SuffixArray(Extended(x.s)) = RotationOrder(Extended(x.s))
           /\ (x.s = Googol => ret = GoogolBwt)
           /\ (x.s = Acctg => ret = AcctgBwt)

C2_Witness ==
    /\ fun = "bwTransform"
    /\ pc = "returned"
    /\ x.s = Acctg
    /\ ret = AcctgBwt
    /\ SuffixArray(Extended(x.s)) = <<5, 0, 1, 2, 4, 3>>

-----------------------------------------------------------------------------
(* C3 *)

\* C3: bwInverse on a string raises the missing-terminator error exactly
\* when the string holds no terminator, the duplicate-terminator error
\* exactly when it holds more than one, and no terminator error when it
\* holds exactly one; the four errors differ from one another.
C3_InverseValidation ==
    /\ Cardinality({TypeErr, TerminatorPresent, TerminatorMissing,
                    TerminatorDuplicate}) = 4
    /\ (fun = "bwInverse" /\ x.isStr)
        => /\ exc = TerminatorMissing <=> Count(x.s, Terminator) = 0
           /\ exc = TerminatorDuplicate <=> Count(x.s, Terminator) > 1
           /\ Count(x.s, Terminator) = 1 => exc = NoExc
           /\ exc # NoExc => (pc = "raised" /\ ret = <<>>)

C3_Witness ==
    /\ fun = "bwInverse"
    /\ pc = "raised"
    /\ x.s = <<108, 111, 36, 111, 111, 103, 103, 36>>
    /\ exc = TerminatorDuplicate

-----------------------------------------------------------------------------
(* C4 *)

\* C4: bwTransform on a string raises the terminator-present error exactly
\* when the string holds the terminator at any position, with nothing
\* returned, and on every terminator-free string it returns without error.
C4_ForwardValidation ==
    (fun = "bwTransform" /\ x.isStr)
        => /\ exc = TerminatorPresent <=> Count(x.s, Terminator) > 0
           /\ exc = TerminatorPresent => (pc = "raised" /\ ret = <<>>)
           /\ Count(x.s, Terminator) = 0 => (pc = "returned" /\ exc = NoExc)

C4_Witness ==
    /\ fun = "bwTransform"
    /\ pc = "raised"
    /\ x.s = GoogolBwt
    /\ exc = TerminatorPresent
    /\ ret = <<>>

-----------------------------------------------------------------------------
(* C5 *)

\* C5: for a terminator-free s of length N, bwTransform(s) has length N + 1,
\* holds every symbol as often as s does plus one terminator, and its one
\* terminator is at the position whose suffix array offset is 0, the rank
\* of s + '$' among the rotations.
C5_LengthAndTerminator ==
    (fun = "bwTransform" /\ pc = "returned")
        => LET X == Extended(x.s)
               S == SuffixArray(X)
           IN /\ Len(ret) = Len(x.s) + 1
              /\ \A c \in AlphabetOf(X) \cup AlphabetOf(ret) :
                    Count(ret, c) = Count(X, c)
              /\ Count(ret, Terminator) = 1
              /\ \A k \in 1..Len(ret) : ret[k] = Terminator <=> S[k] = 0
              /\ OverAlphabet(x.s) =>
                    TerminatorIndex(ret) =
                        Cardinality({b \in 0..(Len(X) - 1) :
                            RotationLess(Rotation(X, b), Rotation(X, 0))})

C5_Witness ==
    /\ fun = "bwTransform"
    /\ pc = "returned"
    /\ x.s = Googol
    /\ Len(ret) = 7
    /\ TerminatorIndex(ret) = 2

-----------------------------------------------------------------------------
(* C6 *)

TransformOfInverse ==
    /\ Len(calls) >= 1
    /\ Previous.fun = "bwInverse"
    /\ fun = "bwTransform"

\* C6 as stated: for every t bwInverse accepts, bwTransform(bwInverse(t))
\* is t.
C6_Original ==
    (TransformOfInverse /\ Finished /\ TransformedOverAlphabet(Previous.arg))
        => (pc = "returned" /\ ret = Previous.arg)

\* C6: for every t that bwTransform returned for a terminator-free s,
\* bwTransform(bwInverse(t)) is t.
C6_ReverseRoundTrip ==
    (TransformOfInverse /\ Finished
        /\ Len(calls) = 2 /\ calls[1].fun = "bwTransform")
        => (pc = "returned" /\ ret = Previous.arg)

C6_Witness ==
    /\ TransformOfInverse
    /\ Len(calls) = 2
    /\ calls[1].fun = "bwTransform"
    /\ calls[1].arg = Acctg
    /\ Previous.arg = AcctgBwt
    /\ pc = "returned"
    /\ ret = AcctgBwt

-----------------------------------------------------------------------------
(* C7 *)

\* C7 as stated: for every t bwInverse accepts, T is a permutation with
\* exactly one cycle of length |t|.
C7_Original ==
    (fun = "bwInverse" /\ pc = "walk" /\ TransformedOverAlphabet(x.s))
        => (IsPermutation(T) /\ SingleCycle(T, TerminatorIndex(x.s)))

\* C7: for every t bwInverse accepts, T is a permutation of 0..|t|-1; when
\* t is what bwTransform returned for a terminator-free s, T is one cycle
\* of length |t|, and the walk from the terminator's position visits every
\* other position once and is one step from the start when it stops.
C7_SingleCycle ==
    (fun = "bwInverse" /\ pc = "walk")
        => /\ IsPermutation(T)
           /\ InverseOfTransform =>
                /\ SingleCycle(T, TerminatorIndex(x.s))
                /\ j = 0 =>
                    /\ {decoded_indexes[k] : k \in 1..Len(decoded_indexes)}
                          \cup {TerminatorIndex(x.s)} = 0..(Len(x.s) - 1)
                    /\ At(T, i) = TerminatorIndex(x.s)

C7_Witness ==
    /\ InverseOfTransform
    /\ pc = "walk"
    /\ j = 0
    /\ x.s = GoogolBwt
    /\ T = <<3, 4, 0, 5, 6, 1, 2>>
    /\ SingleCycle(T, 2)

-----------------------------------------------------------------------------
(* C8 *)

\* the symbols of t in the order the walk visits them
VisitedSymbols ==
    Decoded(x.s, Walk(T, TerminatorIndex(x.s), WalkLength(x.s)))

\* C8 as stated: for t = bwTransform(s), the symbols collected in visiting
\* order are s.
C8_Original ==
    (InverseOfTransform /\ pc = "returned" /\ OverAlphabet(Previous.arg))
        => VisitedSymbols = Previous.arg

\* C8: for t = bwTransform(s), the symbols in visiting order are s back to
\* front, and the output, which stores them back to front, is s.
C8_Walk ==
    (InverseOfTransform /\ pc = "returned")
        => /\ VisitedSymbols = Reverse(Previous.arg)
           /\ Len(decoded_indexes) = Len(Previous.arg)
           /\ ret = Previous.arg

C8_Witness ==
    /\ InverseOfTransform
    /\ pc = "returned"
    /\ Previous.arg = Acctg
    /\ VisitedSymbols = Reverse(Acctg)
    /\ decoded_indexes = <<2, 3, 5, 4, 0>>
    /\ ret = Acctg

-----------------------------------------------------------------------------
(* C9 *)

\* C9: for every t with exactly one terminator, C[s] is the number of
\* positions holding a symbol below s, P[i] the number of t[i] in
\* t[0..i-1], T = C + P is a bijection on 0..|t|-1, and, over the
\* alphabet, F[T[i]] = t[i] with F the symbols of t sorted, terminator
\* first.
C9_LFMap ==
    (fun = "bwInverse" /\ pc = "walk")
        => LET y == x.s
           IN /\ Len(T) = Len(y)
              /\ IsPermutation(T)
              /\ \A k \in 1..Len(y) :
                    /\ CTable(y, y[k]) =
                          Cardinality({m \in 1..Len(y) : y[m] < y[k]})
                    /\ PTable(y, k - 1) =
                          Cardinality({m \in 1..(k - 1) : y[m] = y[k]})
                    /\ T[k] = CTable(y, y[k]) + PTable(y, k - 1)
              /\ TransformedOverAlphabet(y) =>
                    /\ FirstColumn(y)[1] = Terminator
                    /\ \A k \in 1..Len(y) : At(FirstColumn(y), T[k]) = y[k]

C9_Witness ==
    /\ fun = "bwInverse"
    /\ pc = "walk"
    /\ calls = <<>>
    /\ x.s = <<99, 97, 36, 97>>
    /\ T = <<3, 1, 0, 2>>
    /\ FirstColumn(x.s) = <<36, 97, 97, 99>>

-----------------------------------------------------------------------------
(* C10 *)

====
